---- MODULE Spec2Model ----
(***************************************************************************)
(* A model of the Planet Python feed-validation pipeline:                  *)
(*   .github/scripts/validate_feed.py   (validators, aggregator, main)     *)
(*   .github/scripts/format_comment.py  (report renderer, main)            *)
(*   .github/scripts/get_labels.py      (label extractor, main)            *)
(*                                                                         *)
(* Strings the code inspects character by character (URLs, registry        *)
(* section names) are sequences of one-character strings.  An optional     *)
(* value (Python None or a value) is a sequence of length 0 or 1.  A       *)
(* Python dict is a function; d.get(k, default) is Get(d, k, default).     *)
(***************************************************************************)
EXTENDS Integers, Sequences, FiniteSets, TLC

VARIABLES
    dup_args,     \* arguments of one call of check_duplicate_in_config
    dup_ret,      \* the tuple that call returned (as a sequence of 0 or 1 records)
    agg_args,     \* the validations dict handed to determine_overall_status
    agg_ret,      \* what it returned (sequence of 0 or 1 records)
    feed,         \* what feedparser.parse returns to analyze_feed_content
    content_ret,  \* what analyze_feed_content returned (sequence of 0 or 1 records)
    pc,           \* position of each of the three scripts
    issue_data,   \* the dict parse_issue_body returned
    config,       \* the registry file at --config-path
    result,       \* validate_feed.main's result dict
    io,           \* the files and streams the scripts touch
    fault,        \* per script: the process error it ran into, if any
    exit_code,    \* per script: its exit code (sequence of 0 or 1 codes)
    comment       \* format_comment's rendered report (sequence of 0 or 1 records)

vars == <<dup_args, dup_ret, agg_args, agg_ret, feed, content_ret, pc,
          issue_data, config, result, io, fault, exit_code, comment>>

dupVars  == <<dup_args, dup_ret>>
aggVars  == <<agg_args, agg_ret>>
feedVars == <<feed, content_ret>>
pipeVars == <<pc, issue_data, config, result, io, fault, exit_code, comment>>

----------------------------------------------------------------------------
(* Bounds of the model *)

\* longest URL / section name enumerated character by character
MaxLen == 2
\* most feed sections in a sampled registry file
MaxSections == 2
\* most entries in a feed handed to analyze_feed_content
MaxEntries == 11

----------------------------------------------------------------------------
(* The three scripts of the pipeline *)

Scripts == {"validate_feed", "format_comment", "get_labels"}

----------------------------------------------------------------------------
(* Python values *)

None == <<>>
Some(x) == <<x>>

\* dict.get(key, default)
Get(d, k, default) == IF k \in DOMAIN d THEN d[k] ELSE default

\* the empty dict {}
EmptyDict == [k \in {} |-> FALSE]

\* the dict d with d[k] = v set
Put(d, k, v) == [x \in DOMAIN d \cup {k} |-> IF x = k THEN v ELSE d[x]]

Min(S) == CHOOSE x \in S : \A y \in S : x <= y

----------------------------------------------------------------------------
(* Strings *)

\* the characters URLs are enumerated over: a cased letter pair, the slash,
\* and a blank
Chars == {"a", "A", "/", " "}

Strs(n) == UNION {[1..k -> Chars] : k \in 0..n}

\* str.lower(), character by character
LowerChar(c) ==
    CASE c = "A" -> "a"
      [] c = "P" -> "p"
      [] OTHER -> c

Lower(s) == [i \in 1..Len(s) |-> LowerChar(s[i])]

RECURSIVE LStrip(_)
LStrip(s) == IF s # <<>> /\ Head(s) = " " THEN LStrip(Tail(s)) ELSE s

RECURSIVE RStrip(_)
RStrip(s) ==
    IF s # <<>> /\ s[Len(s)] = " " THEN RStrip(SubSeq(s, 1, Len(s) - 1)) ELSE s

\* str.strip()
Strip(s) == RStrip(LStrip(s))

\* str.endswith('/')
EndsWithSlash(s) == s # <<>> /\ s[Len(s)] = "/"

\* normalize_url without the lower-casing (a plausible slip)
normalize_url_keepcase(url) ==
    LET u == Strip(url)
    IN  IF EndsWithSlash(u) THEN SubSeq(u, 1, Len(u) - 1) ELSE u

normalize_url(url) ==
    LET u == Strip(Lower(url))
    IN  IF EndsWithSlash(u) THEN SubSeq(u, 1, Len(u) - 1) ELSE u

----------------------------------------------------------------------------
(* The registry (config.ini) and check_duplicate_in_config *)

\* the reserved section name 'Planet'
Planet == <<"P", "l", "a", "n", "e", "t">>

\* the request types: the two the issue form offers, and an empty one
AddNewFeed == "Add new feed"
EditExistingFeed == "Edit existing feed"
RequestTypes == {AddNewFeed, EditExistingFeed, ""}

\* 'edit' in request_type.lower()
ContainsEdit(request_type) == request_type \in {EditExistingFeed}

\* request_type and 'edit' in request_type.lower()
IsEditRequest(request_type) == request_type # "" /\ ContainsEdit(request_type)

\* A registry file is missing, unparsable (configparser raises
\* configparser.Error) or valid: a sequence of sections in file order, each
\* with its header and its optional 'name' option.
ConfigKinds == {"missing", "unparsable", "valid"}

\* config.read(config_path): the exception it raises, if any.  read() skips a
\* file it cannot open, so a missing file raises nothing.
ConfigReadRaises(cfg) ==
    CASE cfg.kind = "unparsable" -> "Error"
      [] OTHER -> "none"

\* config.sections() after config.read(config_path)
ConfigSections(cfg) == IF cfg.kind = "valid" THEN cfg.sections ELSE <<>>

\* config.get(section, 'name', fallback='Unknown')
SectionName(sec) == IF sec.name = None THEN "Unknown" ELSE sec.name[1]

\* indices of the sections the scanning loops match against a normalized URL
MatchingSections(sections, normalized) ==
    {i \in 1..Len(sections) :
        /\ sections[i].section # Planet
        /\ normalize_url(sections[i].section) = normalized}

DupResult(passed, is_duplicate, existing_name, message) ==
    [passed |-> passed, is_duplicate |-> is_duplicate,
     existing_name |-> existing_name, message |-> message]

\* check_duplicate_in_config with the old-URL check done before the scan
\* for the new URL (a plausible reordering)
check_duplicate_old_first(url, cfg, request_type, old_url) ==
    LET sections == ConfigSections(cfg)
        hits == MatchingSections(sections, normalize_url(url))
        raised == ConfigReadRaises(cfg)
    IN  IF raised # "none"
        THEN DupResult(FALSE, FALSE, None, "error_reading_config")
        ELSE IF /\ IsEditRequest(request_type)
                /\ old_url # None /\ old_url[1] # <<>>
                /\ MatchingSections(sections, normalize_url(old_url[1])) = {}
        THEN DupResult(FALSE, FALSE, None, "old_url_not_found")
        ELSE IF hits # {}
        THEN LET name == SectionName(sections[Min(hits)])
             IN  IF IsEditRequest(request_type)
                 THEN DupResult(TRUE, TRUE, Some(name), "exists_ok_for_edit")
                 ELSE DupResult(FALSE, TRUE, Some(name), "already_exists")
        ELSE DupResult(TRUE, FALSE, None, "no_duplicate_found")

check_duplicate_in_config(url, cfg, request_type, old_url) ==
    LET raised == ConfigReadRaises(cfg)
        sections == ConfigSections(cfg)
        normalized_new == normalize_url(url)
        hits == MatchingSections(sections, normalized_new)
    IN  IF raised = "FileNotFoundError"
        THEN DupResult(FALSE, FALSE, None, "config_file_not_found")
        ELSE IF raised # "none"
        THEN DupResult(FALSE, FALSE, None, "error_reading_config")
        ELSE IF hits # {}
        THEN \* the first matching section returns
             LET name == SectionName(sections[Min(hits)])
             IN  IF IsEditRequest(request_type)
                 THEN DupResult(TRUE, TRUE, Some(name), "exists_ok_for_edit")
                 ELSE DupResult(FALSE, TRUE, Some(name), "already_exists")
        ELSE IF /\ IsEditRequest(request_type)
                /\ old_url # None /\ old_url[1] # <<>>
                /\ MatchingSections(sections, normalize_url(old_url[1])) = {}
        THEN DupResult(FALSE, FALSE, None, "old_url_not_found")
        ELSE DupResult(TRUE, FALSE, None, "no_duplicate_found")

----------------------------------------------------------------------------
(* analyze_feed_content *)

\* What feedparser.parse(url) hands to analyze_feed_content: it raised, or
\* it returned a result with its bozo bit, with or without an 'entries'
\* attribute, and its entries in feed order.  Of an entry the analysis keeps
\* one fact: whether any of python_keywords occurs in (title + ' ' +
\* summary).lower().  Titles and the language hint are carried to the report
\* unchanged and take no part in the score; they are left out.
ParsedFeed(raises, bozo, has_entries, entries) ==
    [raises |-> raises, bozo |-> bozo, has_entries |-> has_entries, entries |-> entries]

NoFeed == ParsedFeed(FALSE, FALSE, TRUE, <<>>)

\* sample_size: int = 10
default_sample_size == 10

\* feed.entries[:sample_size]
Take(q, n) == IF Len(q) <= n THEN q ELSE SubSeq(q, 1, n)

\* python_count after the loop over the sampled entries
PythonCount(entries) == Cardinality({i \in DOMAIN entries : entries[i]})

\* the percentage rounded to the nearest integer (what round() would give)
python_score_rounded(python_count, n) == (200 * python_count + n) \div (2 * n)

\* int((python_count / len(entries)) * 100): the float product truncated.
\* For every n in 1..10 and python_count in 0..n the float result equals the
\* exact quotient's integer part.
python_score_of(python_count, n) == (python_count * 100) \div n

ContentResult(python_score, warnings) ==
    [python_score |-> python_score, warnings |-> warnings]

\* lines 311-315: the warnings generated from the score
content_warnings(python_score) ==
    IF python_score < 30
    THEN <<"Low Python content detected - feed may not be Python-specific">>
    ELSE IF python_score < 60
    THEN <<"Consider filtering your feed by Python tag/category for better relevance">>
    ELSE <<>>

analyze_feed_content(fd, sample_size) ==
    IF fd.raises
    THEN ContentResult(0, <<"Error analyzing content">>)
    ELSE IF fd.bozo \/ ~fd.has_entries
    THEN ContentResult(0, <<"Unable to parse feed for content analysis">>)
    ELSE
    LET entries == Take(fd.entries, sample_size)
    IN  IF entries = <<>>
        THEN ContentResult(0, <<"Feed has no entries to analyze">>)
        ELSE
        LET python_score == python_score_of(PythonCount(entries), Len(entries))
        IN  ContentResult(python_score, content_warnings(python_score))

----------------------------------------------------------------------------
(* Calls of check_duplicate_in_config *)

\* URLs a sampled registry and sampled submissions are made of: two that
\* differ in case and trailing slash, an unrelated one, and one that
\* lower-cases like the reserved section name
SampleUrls ==
    {<<"a">>, <<"A", "/">>, <<"a", "a">>, <<"p", "l", "a", "n", "e", "t">>}

SampleSections == SampleUrls \cup {Planet}

BlogNames == {"ExampleBlog"}

\* injective sequences: configparser rejects a file that repeats a section
DistinctSeqs(S, n) ==
    UNION {{q \in [1..k -> S] : \A i, j \in 1..k : i # j => q[i] # q[j]} : k \in 0..n}

Section(header, name) == [section |-> header, name |-> name]

ValidConfig(sections) == [kind |-> "valid", sections |-> sections]

BrokenConfigs == {[kind |-> k, sections |-> <<>>] : k \in {"missing", "unparsable"}}

\* registry files with up to MaxSections sampled sections, each named
SampleConfigs ==
    {ValidConfig([i \in DOMAIN q |-> Section(q[i], Some("ExampleBlog"))]) :
        q \in DistinctSeqs(SampleSections, MaxSections)}

\* registry files holding one feed section with any header up to MaxLen
\* characters, with or without a name, after the reserved section or alone
PairConfigs ==
    {ValidConfig(pre \o <<Section(h, n)>>) :
        pre \in {<<>>, <<Section(Planet, Some("Planet Python"))>>},
        h \in Strs(MaxLen) \ {<<>>},
        n \in {None} \cup {Some(b) : b \in BlogNames}}

DupArgs(url, cfg, request_type, old_url) ==
    [url |-> url, config |-> cfg, request_type |-> request_type, old_url |-> old_url]

DupInputs ==
    {DupArgs(u, c, t, o) :
        u \in SampleUrls, c \in SampleConfigs \cup BrokenConfigs, t \in RequestTypes,
        o \in {None} \cup {Some(x) : x \in SampleUrls}}
    \cup
    {DupArgs(u, c, t, None) :
        u \in Strs(MaxLen), c \in PairConfigs, t \in RequestTypes}

NoDupArgs == DupArgs(<<>>, [kind |-> "missing", sections |-> <<>>], "", None)

DupIdle == dup_args = NoDupArgs /\ dup_ret = None
AggIdle == agg_args = EmptyDict /\ agg_ret = None
FeedIdle == feed = NoFeed /\ content_ret = None
PipeIdle ==
    /\ pc = [s \in Scripts |-> "exited"]
    /\ issue_data = EmptyDict
    /\ config = [kind |-> "missing", sections |-> <<>>]
    /\ result = EmptyDict
    /\ io = [result_file |-> "absent", stdout |-> None, calls |-> <<>>]
    /\ fault = [s \in Scripts |-> "none"]
    /\ exit_code = [s \in Scripts |-> None]
    /\ comment = None

InitDup ==
    /\ dup_args \in DupInputs
    /\ dup_ret = None
    /\ AggIdle /\ FeedIdle /\ PipeIdle

CheckDuplicate ==
    /\ dup_ret = None
    /\ dup_ret' = Some(check_duplicate_in_config(
            dup_args.url, dup_args.config, dup_args.request_type, dup_args.old_url))
    /\ UNCHANGED <<dup_args, aggVars, feedVars, pipeVars>>

NextDup == CheckDuplicate

SpecDup == InitDup /\ [][NextDup]_vars

----------------------------------------------------------------------------
(* Claims about check_duplicate_in_config, checked under SpecDup *)

DupReturned == dup_ret # None

\* some feed section of the registry is the URL u after normalization
RegistryHas(cfg, u) ==
    \E i \in 1..Len(ConfigSections(cfg)) :
        /\ ConfigSections(cfg)[i].section # Planet
        /\ normalize_url(ConfigSections(cfg)[i].section) = normalize_url(u)

\* an edit request that supplies an old URL no registry entry matches
EditWithUnknownOldUrl ==
    /\ IsEditRequest(dup_args.request_type)
    /\ dup_args.old_url # None /\ dup_args.old_url[1] # <<>>
    /\ ~RegistryHas(dup_args.config, dup_args.old_url[1])

\* C4 as stated: an edit whose old URL matches no registry entry fails the
\* duplicate check whether or not the new URL matches an entry.
C4_EditUnknownOldAlwaysFails ==
    (DupReturned /\ EditWithUnknownOldUrl) => ~dup_ret[1].passed

\* C4 amended: an edit whose old URL matches no registry entry fails the
\* duplicate check when the new URL matches no entry either; when the new URL
\* matches an entry the check passes, reporting the duplicate as acceptable
\* for an edit, and the old URL is never looked up.
C4_EditUnknownOldFailsUnlessNewMatches ==
    (DupReturned /\ EditWithUnknownOldUrl) =>
        IF RegistryHas(dup_args.config, dup_args.url)
        THEN /\ dup_ret[1].passed
             /\ dup_ret[1].is_duplicate
             /\ dup_ret[1].message = "exists_ok_for_edit"
        ELSE /\ ~dup_ret[1].passed
             /\ ~dup_ret[1].is_duplicate

\* C4 witness: an edit with an unknown old URL whose new URL is registered
\* has been checked and passed.
C4_Witness ==
    /\ DupReturned /\ EditWithUnknownOldUrl
    /\ RegistryHas(dup_args.config, dup_args.url)
    /\ dup_ret[1].passed

\* C5 as stated: when the registry file does not exist the duplicate check
\* returns check_passed = false with the file-not-found message.
C5_MissingRegistryFails ==
    (DupReturned /\ dup_args.config.kind = "missing") =>
        /\ ~dup_ret[1].passed
        /\ dup_ret[1].message = "config_file_not_found"

\* two strings that differ at most in letter case and in the presence of one
\* trailing slash
SameUpToCaseAndSlash(u, s) ==
    \/ Lower(u) = Lower(s)
    \/ Lower(u) = Append(Lower(s), "/")
    \/ Lower(s) = Append(Lower(u), "/")

\* the shorter of two strings
Shorter(u, s) == IF Len(u) <= Len(s) THEN u ELSE s

\* a string that ends in neither a slash nor a blank
EndsPlain(s) == s = <<>> \/ s[Len(s)] \notin {"/", " "}

FeedSectionIndices(cfg) ==
    {i \in 1..Len(ConfigSections(cfg)) : ConfigSections(cfg)[i].section # Planet}

\* C6 as stated: a submitted URL and a feed section name that differ only in
\* letter case and/or one trailing slash are reported as a duplicate, and
\* when no feed section has the URL's normalized form no duplicate is reported.
C6_CaseAndSlashInsensitive ==
    (DupReturned /\ dup_args.config.kind = "valid") =>
        /\ \A i \in FeedSectionIndices(dup_args.config) :
              SameUpToCaseAndSlash(dup_args.url, dup_args.config.sections[i].section)
                  => dup_ret[1].is_duplicate
        /\ ~RegistryHas(dup_args.config, dup_args.url) => ~dup_ret[1].is_duplicate

\* C6 amended: a submitted URL and a feed section name that differ only in
\* letter case and/or one trailing slash are reported as a duplicate provided
\* the one without that slash ends in neither a slash nor a blank (exactly
\* one trailing slash is removed, after blanks are stripped); and a duplicate
\* is reported exactly when some feed section has the URL's normalized form.
C6_NormalizedFormsDecide ==
    (DupReturned /\ dup_args.config.kind = "valid") =>
        /\ \A i \in FeedSectionIndices(dup_args.config) :
              LET s == dup_args.config.sections[i].section
              IN  (/\ SameUpToCaseAndSlash(dup_args.url, s)
                   /\ (Len(s) # Len(dup_args.url) => EndsPlain(Shorter(dup_args.url, s))))
                      => dup_ret[1].is_duplicate
        /\ dup_ret[1].is_duplicate <=> RegistryHas(dup_args.config, dup_args.url)

\* C6 witness: a URL was reported as a duplicate of a section name that
\* differs from it in case and in the trailing slash.
C6_Witness ==
    /\ DupReturned /\ dup_args.config.kind = "valid"
    /\ dup_ret[1].is_duplicate
    /\ \E i \in FeedSectionIndices(dup_args.config) :
          LET s == dup_args.config.sections[i].section
          IN  /\ Lower(s) # Lower(dup_args.url)
              /\ s # Lower(s)
              /\ SameUpToCaseAndSlash(dup_args.url, s)

----------------------------------------------------------------------------
(* determine_overall_status *)

Range(q) == {q[i] : i \in DOMAIN q}

\* critical_checks without 'structure' (a plausible omission)
critical_checks_without_structure == <<"url_format", "accessibility">>

critical_checks == <<"url_format", "accessibility", "structure">>

\* any(not validations.get(check, {}).get('passed', False) for check in critical_checks)
has_critical_failure(validations) ==
    \E i \in DOMAIN critical_checks :
        ~Get(Get(validations, critical_checks[i], EmptyDict), "passed", FALSE)

\* the score branches with the bounds taken inclusively (a plausible slip)
ScoreBranchInclusive(python_score) ==
    IF python_score <= 30 THEN "low"
    ELSE IF python_score <= 60 THEN "moderate"
    ELSE "good"

\* the if / elif / fall-through on python_score in determine_overall_status
ScoreBranch(python_score) ==
    IF python_score < 30 THEN "low"
    ELSE IF python_score < 60 THEN "moderate"
    ELSE "good"

\* the pass branch labelling every pass 'validation-passed' (a plausible slip)
PassLabelsAlways(labels) == Append(labels, "validation-passed")

\* if not labels: labels.append('validation-passed')
PassLabels(labels) ==
    IF labels = <<>> THEN Append(labels, "validation-passed") ELSE labels

StatusResult(overall_status, labels, recommendations) ==
    [overall_status |-> overall_status, labels |-> labels,
     recommendations |-> recommendations]

\* determine_overall_status with a detected duplicate demoting a pass to a
\* warning (a plausible reading of "duplicates warrant review")
determine_overall_status_duplicate_warns(validations) ==
    IF has_critical_failure(validations)
    THEN StatusResult("fail", <<"validation-failed">>,
            <<"Please fix the critical errors above before resubmitting">>)
    ELSE
    LET is_duplicate ==
            Get(Get(validations, "duplicate", EmptyDict), "is_duplicate", FALSE)
        labels == IF is_duplicate THEN <<"duplicate-feed">> ELSE <<>>
        recommendations ==
            IF is_duplicate
            THEN <<"This feed appears to already exist - please verify this is an edit request">>
            ELSE <<>>
        python_score ==
            Get(Get(validations, "content", EmptyDict), "python_score", 0)
        branch == ScoreBranch(python_score)
    IN  CASE branch = "low" ->
                StatusResult("warning", Append(labels, "validation-warning"),
                    recommendations \o
                    <<"Feed appears to have low Python-specific content",
                      "Consider providing a filtered feed URL (by tag/category)">>)
          [] branch = "moderate" ->
                StatusResult("warning", Append(labels, "validation-warning"),
                    Append(recommendations,
                      "Feed has moderate Python content - consider filtering by Python tag/category"))
          [] OTHER ->
                StatusResult(IF is_duplicate THEN "warning" ELSE "pass",
                             PassLabels(labels), recommendations)

determine_overall_status(validations) ==
    IF has_critical_failure(validations)
    THEN StatusResult("fail", <<"validation-failed">>,
            <<"Please fix the critical errors above before resubmitting">>)
    ELSE
    LET is_duplicate ==
            Get(Get(validations, "duplicate", EmptyDict), "is_duplicate", FALSE)
        labels == IF is_duplicate THEN <<"duplicate-feed">> ELSE <<>>
        recommendations ==
            IF is_duplicate
            THEN <<"This feed appears to already exist - please verify this is an edit request">>
            ELSE <<>>
        python_score ==
            Get(Get(validations, "content", EmptyDict), "python_score", 0)
        branch == ScoreBranch(python_score)
    IN  CASE branch = "low" ->
                StatusResult("warning", Append(labels, "validation-warning"),
                    recommendations \o
                    <<"Feed appears to have low Python-specific content",
                      "Consider providing a filtered feed URL (by tag/category)">>)
          [] branch = "moderate" ->
                StatusResult("warning", Append(labels, "validation-warning"),
                    Append(recommendations,
                      "Feed has moderate Python content - consider filtering by Python tag/category"))
          [] OTHER ->
                StatusResult("pass", PassLabels(labels), recommendations)

----------------------------------------------------------------------------
(* Calls of determine_overall_status on any validations dict *)

CheckNames == {"url_format", "accessibility", "structure", "duplicate", "content"}

\* a percentage
Percent == 0..100

Maybe(S) == {None} \cup {Some(x) : x \in S}

\* the entry of a critical check: no 'passed' key, or passed true / false
CriticalEntries == {EmptyDict} \cup {[passed |-> b] : b \in BOOLEAN}

DuplicateEntries ==
    {EmptyDict} \cup {[passed |-> p, is_duplicate |-> d] : p, d \in BOOLEAN}

ContentEntries == {EmptyDict} \cup {[python_score |-> n] : n \in Percent}

\* the dict that holds the keys of r whose value is present
DictOf(r) == [k \in {x \in DOMAIN r : r[x] # None} |-> r[k][1]]

\* every validations dict: each of the five keys absent or present
AggInputs ==
    {DictOf(r) :
        r \in [url_format : Maybe(CriticalEntries),
               accessibility : Maybe(CriticalEntries),
               structure : Maybe(CriticalEntries),
               duplicate : Maybe(DuplicateEntries),
               content : Maybe(ContentEntries)]}

InitAgg ==
    /\ agg_args \in AggInputs
    /\ agg_ret = None
    /\ DupIdle /\ FeedIdle /\ PipeIdle

DetermineOverallStatus ==
    /\ agg_ret = None
    /\ agg_ret' = Some(determine_overall_status(agg_args))
    /\ UNCHANGED <<agg_args, dupVars, feedVars, pipeVars>>

NextAgg == DetermineOverallStatus

SpecAgg == InitAgg /\ [][NextAgg]_vars

----------------------------------------------------------------------------
(* Claims about determine_overall_status, checked under SpecAgg *)

AggReturned == agg_ret # None

\* a critical check whose entry is missing or does not say passed = true
CriticalFailed(validations, check) ==
    \/ check \notin DOMAIN validations
    \/ "passed" \notin DOMAIN validations[check]
    \/ ~validations[check]["passed"]

AllCriticalPassed(validations) ==
    \A c \in {"url_format", "accessibility", "structure"} :
        ~CriticalFailed(validations, c)

DuplicateDetected(validations) ==
    /\ "duplicate" \in DOMAIN validations
    /\ "is_duplicate" \in DOMAIN validations["duplicate"]
    /\ validations["duplicate"]["is_duplicate"]

\* the content score the aggregator reads: 0 when none was recorded
ScoreOf(validations) ==
    IF "content" \in DOMAIN validations /\ "python_score" \in DOMAIN validations["content"]
    THEN validations["content"]["python_score"]
    ELSE 0

\* C3: whenever url_format, accessibility or structure has not passed (or is
\* missing) the status is fail and the labels are exactly validation-failed,
\* whatever the content score and the duplicate result.
C3_CriticalFailureForcesFail ==
    (AggReturned /\ ~AllCriticalPassed(agg_args)) =>
        /\ agg_ret[1].overall_status = "fail"
        /\ agg_ret[1].labels = <<"validation-failed">>

\* C3 witness: only the structure check failed, the content score is 100, a
\* duplicate was detected, and the status returned is fail.
C3_Witness ==
    /\ AggReturned
    /\ ~CriticalFailed(agg_args, "url_format")
    /\ ~CriticalFailed(agg_args, "accessibility")
    /\ CriticalFailed(agg_args, "structure")
    /\ ScoreOf(agg_args) = 100
    /\ DuplicateDetected(agg_args)
    /\ agg_ret[1].overall_status = "fail"

LabelsTogether(v, a, b) ==
    {a, b} \subseteq Range(determine_overall_status(v).labels)

DuplicateWithWarningPossible ==
    \E v \in AggInputs : LabelsTogether(v, "duplicate-feed", "validation-warning")

DuplicateWithPassedPossible ==
    \E v \in AggInputs : LabelsTogether(v, "duplicate-feed", "validation-passed")

DuplicateAlonePassPossible ==
    \E v \in AggInputs :
        /\ determine_overall_status(v).overall_status = "pass"
        /\ determine_overall_status(v).labels = <<"duplicate-feed">>

\* C8 as stated: some input yields duplicate-feed with validation-warning,
\* some input yields duplicate-feed with validation-passed, and no result
\* holds duplicate-feed with validation-failed.
C8_DuplicateCoexistsWithWarningAndPassed ==
    /\ DuplicateWithWarningPossible
    /\ DuplicateWithPassedPossible
    /\ AggReturned =>
          ~({"duplicate-feed", "validation-failed"} \subseteq Range(agg_ret[1].labels))

\* C8 amended: duplicate-feed can appear together with validation-warning,
\* and can be the only label of a pass; it never appears together with
\* validation-failed nor with validation-passed (the pass branch adds
\* validation-passed only when no label was accumulated).
C8_DuplicateNeverWithFailedOrPassed ==
    /\ DuplicateWithWarningPossible
    /\ DuplicateAlonePassPossible
    /\ (AggReturned /\ "duplicate-feed" \in Range(agg_ret[1].labels)) =>
          /\ "validation-failed" \notin Range(agg_ret[1].labels)
          /\ "validation-passed" \notin Range(agg_ret[1].labels)
          /\ \/ agg_ret[1].labels = <<"duplicate-feed", "validation-warning">>
             \/ agg_ret[1].labels = <<"duplicate-feed">> /\ agg_ret[1].overall_status = "pass"

\* C8 witness: a detected duplicate with a content score of at least 60 was
\* returned as a pass whose only label is duplicate-feed.
C8_Witness ==
    /\ AggReturned
    /\ DuplicateDetected(agg_args)
    /\ ScoreOf(agg_args) >= 60
    /\ agg_ret[1].overall_status = "pass"
    /\ agg_ret[1].labels = <<"duplicate-feed">>

\* C10: with the three critical checks passed and no duplicate detected, a
\* score below 30 gives warning, validation-warning and two recommendations;
\* a score from 30 to 59 gives warning, validation-warning and one
\* recommendation; a score of 60 or more gives pass, validation-passed and
\* no recommendation.
C10_ScoreClassification ==
    (AggReturned /\ AllCriticalPassed(agg_args) /\ ~DuplicateDetected(agg_args)) =>
        LET s == ScoreOf(agg_args)
            r == agg_ret[1]
        IN  /\ s < 30 =>
                /\ r.overall_status = "warning"
                /\ r.labels = <<"validation-warning">>
                /\ Len(r.recommendations) = 2
            /\ (30 <= s /\ s < 60) =>
                /\ r.overall_status = "warning"
                /\ r.labels = <<"validation-warning">>
                /\ Len(r.recommendations) = 1
            /\ s >= 60 =>
                /\ r.overall_status = "pass"
                /\ r.labels = <<"validation-passed">>
                /\ r.recommendations = <<>>

\* C10 witness: a score of 40 with the critical checks passed and no
\* duplicate was returned as a warning with one recommendation.
C10_Witness ==
    /\ AggReturned /\ AllCriticalPassed(agg_args) /\ ~DuplicateDetected(agg_args)
    /\ ScoreOf(agg_args) = 40
    /\ agg_ret[1].overall_status = "warning"
    /\ Len(agg_ret[1].recommendations) = 1

----------------------------------------------------------------------------
(* Calls of analyze_feed_content *)

BoolSeqs(n) == UNION {[1..k -> BOOLEAN] : k \in 0..n}

FeedInputs ==
    {ParsedFeed(FALSE, FALSE, TRUE, e) : e \in BoolSeqs(MaxEntries)}
    \cup {ParsedFeed(TRUE, FALSE, TRUE, <<>>),
          ParsedFeed(FALSE, TRUE, TRUE, <<>>),
          ParsedFeed(FALSE, TRUE, TRUE, <<TRUE>>),
          ParsedFeed(FALSE, FALSE, FALSE, <<>>)}

InitFeed ==
    /\ feed \in FeedInputs
    /\ content_ret = None
    /\ DupIdle /\ AggIdle /\ PipeIdle

AnalyzeFeedContent ==
    /\ content_ret = None
    /\ content_ret' = Some(analyze_feed_content(feed, default_sample_size))
    /\ UNCHANGED <<feed, dupVars, aggVars, pipeVars>>

NextFeed == AnalyzeFeedContent

SpecFeed == InitFeed /\ [][NextFeed]_vars

----------------------------------------------------------------------------
(* Claims about analyze_feed_content, checked under SpecFeed *)

\* the call scored a sample: the feed parsed and has at least one entry
Scored ==
    /\ content_ret # None
    /\ ~feed.raises /\ ~feed.bozo /\ feed.has_entries
    /\ feed.entries # <<>>

\* n, the number of entries sampled
SampledN == IF Len(feed.entries) <= 10 THEN Len(feed.entries) ELSE 10

\* k, the number of sampled entries that match a keyword
MatchedK == Cardinality({i \in 1..SampledN : feed.entries[i]})

\* C7 as stated: the score is k / n * 100 rounded to the nearest integer,
\* so it lies within half a point of the exact percentage.
C7_ScoreIsRounded ==
    Scored =>
        LET d == 100 * MatchedK - content_ret[1].python_score * SampledN
        IN  2 * d <= SampledN /\ -2 * d <= SampledN

\* C7 amended: with the default sample size of 10 the score is k / n * 100
\* truncated to an integer (its integer part, never rounded up); n = 10,
\* k = 3 gives 30 and n = 10, k = 6 gives 60.
C7_ScoreIsTruncated ==
    Scored =>
        LET score == content_ret[1].python_score
        IN  /\ score * SampledN <= 100 * MatchedK
            /\ 100 * MatchedK < (score + 1) * SampledN
            /\ (SampledN = 10 /\ MatchedK = 3) => score = 30
            /\ (SampledN = 10 /\ MatchedK = 6) => score = 60

\* C7 witness: two of three sampled entries matched and the score is 66.
C7_Witness ==
    /\ Scored
    /\ SampledN = 3 /\ MatchedK = 2
    /\ content_ret[1].python_score = 66

----------------------------------------------------------------------------
(* validate_feed.py: the validators main runs on what the libraries return *)

\* urlparse(url): it raised, or the scheme and netloc it found
UrlParse(raises, scheme, netloc) == [raises |-> raises, scheme |-> scheme, netloc |-> netloc]

UrlParses ==
    {UrlParse(TRUE, "", "")}
    \cup {UrlParse(FALSE, sc, nl) : sc \in {"", "http", "https", "ftp"}, nl \in {"", "example.com"}}

validate_url_format(parsed) ==
    IF parsed.raises
    THEN [passed |-> FALSE, message |-> "URL parsing error"]
    ELSE IF parsed.scheme = ""
    THEN [passed |-> FALSE, message |-> "URL missing scheme (http:// or https://)"]
    ELSE IF parsed.scheme \notin {"http", "https"}
    THEN [passed |-> FALSE, message |-> "Invalid scheme (must be http or https)"]
    ELSE IF parsed.netloc = ""
    THEN [passed |-> FALSE, message |-> "URL missing domain/hostname"]
    ELSE [passed |-> TRUE, message |-> "Valid URL format"]

\* requests.get(url, ...): a response, or the exception it raised
HttpOutcome(kind, status_code, redirected) ==
    [kind |-> kind, status_code |-> status_code, redirected |-> redirected]

HttpOutcomes ==
    {HttpOutcome("response", c, r) : c \in {200, 404}, r \in BOOLEAN}
    \cup {HttpOutcome(k, 0, FALSE) :
            k \in {"Timeout", "ConnectionError", "TooManyRedirects", "Exception"}}

AccessResult(passed, status_code, final_url, message) ==
    [passed |-> passed, status_code |-> status_code,
     final_url |-> final_url, message |-> message]

check_feed_accessibility(resp) ==
    CASE resp.kind = "response" ->
            LET final_url == IF resp.redirected THEN Some("response.url") ELSE None
            IN  IF resp.status_code = 200
                THEN AccessResult(TRUE, resp.status_code, final_url,
                        IF final_url # None THEN "Feed accessible (redirected)"
                                            ELSE "Feed accessible")
                ELSE AccessResult(FALSE, resp.status_code, None, "HTTP status")
      [] resp.kind = "Timeout" ->
            AccessResult(FALSE, 0, None, "Request timed out")
      [] resp.kind = "ConnectionError" ->
            AccessResult(FALSE, 0, None, "Unable to connect to feed URL")
      [] resp.kind = "TooManyRedirects" ->
            AccessResult(FALSE, 0, None, "Too many redirects")
      [] OTHER ->
            AccessResult(FALSE, 0, None, "Error")

\* feedparser.parse(url) as validate_feed_structure reads it: it raised, or
\* its bozo bit, its version ("" when none was detected) and its entry count
StructFeed(raises, bozo, version, n_entries) ==
    [raises |-> raises, bozo |-> bozo, version |-> version, n_entries |-> n_entries]

StructFeeds ==
    {StructFeed(TRUE, FALSE, "", 0), StructFeed(FALSE, TRUE, "", 0),
     StructFeed(FALSE, FALSE, "", 3), StructFeed(FALSE, FALSE, "rss20", 0),
     StructFeed(FALSE, FALSE, "rss20", 12), StructFeed(FALSE, FALSE, "cdf", 3)}

StructResult(passed, feed_type, entries, message) ==
    [passed |-> passed, feed_type |-> feed_type, entries |-> entries, message |-> message]

\* f"Valid {feed_type_name} feed"
ValidFeedMessage(version) ==
    CASE version = "rss10" -> "Valid RSS 1.0 feed"
      [] version = "rss20" -> "Valid RSS 2.0 feed"
      [] version = "rss" -> "Valid RSS feed"
      [] version = "atom" -> "Valid Atom feed"
      [] version = "atom10" -> "Valid Atom 1.0 feed"
      [] version = "atom03" -> "Valid Atom 0.3 feed"
      [] OTHER -> "Valid feed (version code as reported)"

validate_feed_structure(fd) ==
    IF fd.raises
    THEN StructResult(FALSE, None, 0, "Error parsing feed")
    ELSE IF fd.bozo
    THEN StructResult(FALSE, None, 0, "Feed parsing error")
    ELSE IF fd.version = ""
    THEN StructResult(FALSE, None, 0, "Unable to detect feed format (not RSS or Atom)")
    ELSE IF fd.n_entries = 0
    THEN StructResult(FALSE, Some(fd.version), 0, "Feed has no entries")
    ELSE StructResult(TRUE, Some(fd.version), fd.n_entries, ValidFeedMessage(fd.version))

----------------------------------------------------------------------------
(* validate_feed.py: main *)

IssueKeys == {"feed-url", "name", "request-type", "old-url"}

\* the dict parse_issue_body returns: a key is present only with a
\* non-empty value
IssueDict(feed_url, name, request_type, old_url) ==
    DictOf([k \in IssueKeys |->
              CASE k = "feed-url" -> feed_url
                [] k = "name" -> name
                [] k = "request-type" -> request_type
                [] OTHER -> old_url])

PipeUrls == {<<"a">>, <<"A", "/">>}

PipeOldUrls == {<<"a">>, <<"a", "a">>}

IssueDatas ==
    {IssueDict(u, n, t, o) :
        u \in Maybe(PipeUrls), n \in Maybe({"My Blog"}),
        t \in Maybe({AddNewFeed, EditExistingFeed}), o \in Maybe(PipeOldUrls)}

PipeConfigs ==
    BrokenConfigs
    \cup {ValidConfig(<<>>),
          ValidConfig(<<Section(Planet, Some("Planet Python")),
                        Section(<<"a">>, Some("ExampleBlog"))>>)}

\* feeds the content analysis may be handed by its own feedparser.parse call
PipeFeeds ==
    {ParsedFeed(TRUE, FALSE, TRUE, <<>>), ParsedFeed(FALSE, TRUE, TRUE, <<>>),
     ParsedFeed(FALSE, FALSE, TRUE, <<>>), ParsedFeed(FALSE, FALSE, TRUE, <<FALSE>>),
     ParsedFeed(FALSE, FALSE, TRUE, <<TRUE, FALSE, FALSE>>),
     ParsedFeed(FALSE, FALSE, TRUE, <<TRUE, FALSE>>),
     ParsedFeed(FALSE, FALSE, TRUE, <<TRUE, TRUE, FALSE>>),
     ParsedFeed(FALSE, FALSE, TRUE, <<TRUE>>)}

\* lines 384-399: the fields read from issue_data and the initial result
InitialResult(data) ==
    [success |-> TRUE,
     feed_url |-> Get(data, "feed-url", <<>>),
     feed_name |-> Get(data, "name", "Unknown"),
     request_type |-> Get(data, "request-type", AddNewFeed),
     validations |-> EmptyDict,
     overall_status |-> "unknown",
     labels |-> <<>>,
     recommendations |-> <<>>]

\* old_url = issue_data.get('old-url')
OldUrlOf(data) == IF "old-url" \in DOMAIN data THEN Some(data["old-url"]) ELSE None

SetValidation(r, key, entry) == [r EXCEPT !.validations = Put(@, key, entry)]

\* the early failure that leaves success set (a plausible omission)
EarlyFailKeepsSuccess(r) ==
    [SetValidation(r, "parsing",
        [passed |-> FALSE, message |-> "Unable to extract feed URL from issue body"])
     EXCEPT !.overall_status = "fail",
            !.labels = <<"validation-failed">>,
            !.recommendations =
                <<"Please ensure the feed URL field is filled in the issue template">>]

\* lines 402-410: if not feed_url
EarlyFailResult(r) ==
    [SetValidation(r, "parsing",
        [passed |-> FALSE, message |-> "Unable to extract feed URL from issue body"])
     EXCEPT !.success = FALSE,
            !.overall_status = "fail",
            !.labels = <<"validation-failed">>,
            !.recommendations =
                <<"Please ensure the feed URL field is filled in the issue template">>]

\* url_valid, as main reads it back
UrlValid(r) == r.validations["url_format"].passed

\* lines 422-435
AccessibilityEntry(r, resp) ==
    IF UrlValid(r)
    THEN check_feed_accessibility(resp)
    ELSE [passed |-> FALSE, status_code |-> 0, message |-> "Skipped (invalid URL format)"]

\* the structure check run whatever the accessibility check returned (a
\* plausible omission of the guard)
StructureRunsAlways(r) == TRUE

\* the condition of line 438
StructureRuns(r) == UrlValid(r) /\ r.validations["accessibility"].passed

\* lines 438-450
StructureEntry(r, fd) ==
    IF StructureRuns(r)
    THEN validate_feed_structure(fd)
    ELSE [passed |-> FALSE, message |-> "Skipped (feed not accessible)"]

\* the condition of line 464
ContentRuns(r) == Get(r.validations["structure"], "passed", FALSE)

\* the content step recording nothing when the analysis is skipped (a
\* plausible omission)
RecordContentOnlyWhenRun(r, fd) ==
    IF ContentRuns(r)
    THEN SetValidation(r, "content", analyze_feed_content(fd, default_sample_size))
    ELSE r

\* lines 463-476
RecordContent(r, fd) ==
    SetValidation(r, "content",
        IF ContentRuns(r)
        THEN analyze_feed_content(fd, default_sample_size)
        ELSE [python_score |-> 0, warnings |-> <<"Skipped (feed structure invalid)">>])

\* the aggregation step storing the labels and recommendations but leaving
\* overall_status as initialised (a plausible omission of line 480)
WithOverallStatusUnset(r) ==
    LET st == determine_overall_status(r.validations)
    IN  [r EXCEPT !.labels = st.labels,
                  !.recommendations = st.recommendations]

\* lines 479-482
WithOverallStatus(r) ==
    LET st == determine_overall_status(r.validations)
    IN  [r EXCEPT !.overall_status = st.overall_status,
                  !.labels = st.labels,
                  !.recommendations = st.recommendations]

\* the output step exiting 0 whether or not the file was written (a
\* plausible slip)
WriteExitCodeAlwaysZero(written) == 0

\* lines 485-492: sys.exit(0) after json.dump, sys.exit(1) on an exception
WriteExitCode(written) == IF written THEN 0 ELSE 1

\* parser.parse_args() on a missing required argument: argparse exits 2
argparse_error_status == 2

----------------------------------------------------------------------------
(* format_comment.py: the report renderer *)

\* get_emoji: the glyphs are named, not drawn
get_emoji(passed, warning) ==
    IF warning THEN "warning-sign" ELSE IF passed THEN "check-mark" ELSE "cross-mark"

get_status_emoji(status) ==
    CASE status = "pass" -> "check-mark"
      [] status = "warning" -> "warning-sign"
      [] status = "fail" -> "cross-mark"
      [] OTHER -> "question-mark"

ReportLine(check, emoji, text) == [check |-> check, emoji |-> emoji, text |-> text]

format_url_validation(validation) ==
    ReportLine("URL Format", get_emoji(Get(validation, "passed", FALSE), FALSE),
               <<Get(validation, "message", "Unknown")>>)

format_accessibility_validation(validation) ==
    LET status_code == Get(validation, "status_code", 0)
        message == Get(validation, "message", "Unknown")
    IN  ReportLine("Accessibility", get_emoji(Get(validation, "passed", FALSE), FALSE),
                   IF status_code > 0 THEN <<message, "HTTP", status_code>> ELSE <<message>>)

format_structure_validation(validation) ==
    LET passed == Get(validation, "passed", FALSE)
        entries == Get(validation, "entries", 0)
        message == Get(validation, "message", "Unknown")
    IN  ReportLine("Feed Structure", get_emoji(passed, FALSE),
                   IF passed /\ entries > 0 THEN <<message, entries, "entries">> ELSE <<message>>)

format_duplicate_validation(validation) ==
    LET is_duplicate == Get(validation, "is_duplicate", FALSE)
        existing_name == Get(validation, "existing_name", None)
    IN  ReportLine("Duplicate Check",
                   get_emoji(Get(validation, "passed", FALSE), is_duplicate),
                   IF is_duplicate /\ existing_name # None /\ existing_name # Some("")
                   THEN <<"Feed already exists as", existing_name[1]>>
                   ELSE <<Get(validation, "message", "Unknown")>>)

\* format_content_validation with the upper threshold exclusive (a plausible
\* off-by-one: > 60 for >= 60)
format_content_validation_exclusive(validation) ==
    LET python_score == Get(validation, "python_score", 0)
        warnings == Get(validation, "warnings", <<>>)
        status_text ==
            IF python_score > 60 THEN "Good"
            ELSE IF python_score >= 30 THEN "Moderate"
            ELSE "Low"
        emoji == IF python_score > 60 THEN "check-mark" ELSE "warning-sign"
        shown ==
            IF warnings # <<>> /\ warnings[1] # "Skipped (feed structure invalid)"
            THEN Take(warnings, 2)
            ELSE <<>>
    IN  ReportLine("Python Content", emoji, <<python_score, status_text, shown>>)

format_content_validation(validation) ==
    LET python_score == Get(validation, "python_score", 0)
        warnings == Get(validation, "warnings", <<>>)
        status_text ==
            IF python_score >= 60 THEN "Good"
            ELSE IF python_score >= 30 THEN "Moderate"
            ELSE "Low"
        emoji == IF python_score >= 60 THEN "check-mark" ELSE "warning-sign"
        shown ==
            IF warnings # <<>> /\ warnings[1] # "Skipped (feed structure invalid)"
            THEN Take(warnings, 2)
            ELSE <<>>
    IN  ReportLine("Python Content", emoji, <<python_score, status_text, shown>>)

\* str.upper() of an overall status
Upper(status) ==
    CASE status = "pass" -> "PASS"
      [] status = "warning" -> "WARNING"
      [] status = "fail" -> "FAIL"
      [] OTHER -> "UNKNOWN"

\* the line a check renders to, for the checks generate_comment knows
FormatCheck(check, validation) ==
    CASE check = "url_format" -> format_url_validation(validation)
      [] check = "accessibility" -> format_accessibility_validation(validation)
      [] check = "structure" -> format_structure_validation(validation)
      [] check = "duplicate" -> format_duplicate_validation(validation)
      [] OTHER -> format_content_validation(validation)

\* the order generate_comment renders the checks in
RenderOrder == <<"url_format", "accessibility", "structure", "duplicate", "content">>

\* the subsequence of q whose elements are in S
RECURSIVE Filter(_, _)
Filter(q, S) ==
    IF q = <<>> THEN <<>>
    ELSE IF Head(q) \in S THEN <<Head(q)>> \o Filter(Tail(q), S)
    ELSE Filter(Tail(q), S)

\* generate_comment: the parts of the report, in order.  Sample titles are
\* not carried by the model's content entry, so their section is empty.
generate_comment(r) ==
    LET overall_status == Get(r, "overall_status", "unknown")
        validations == Get(r, "validations", EmptyDict)
        labels == Get(r, "labels", <<>>)
        present == Filter(RenderOrder, DOMAIN validations)
    IN  [feed_url |-> Get(r, "feed_url", "Unknown"),
         feed_name |-> Get(r, "feed_name", "Unknown"),
         request_type |-> Get(r, "request_type", "Unknown"),
         checks |-> [i \in DOMAIN present |-> FormatCheck(present[i], validations[present[i]])],
         status_emoji |-> get_status_emoji(overall_status),
         status_text |-> Upper(overall_status),
         recommendations |-> Get(r, "recommendations", <<>>),
         next_steps |->
            IF overall_status = "fail" THEN <<"Please fix the errors above and update your issue">>
            ELSE IF overall_status = "warning"
            THEN <<"Review the warnings above", "A maintainer will review your submission">>
            ELSE <<"Your feed looks good!", "A maintainer will review and add your feed">>,
         footer_labels |-> IF labels # <<>> THEN labels ELSE <<"none">>]

\* ','.join(labels): the printed line, as its comma-separated parts
CommaJoined(labels) == [separator |-> ",", parts |-> labels]

----------------------------------------------------------------------------
(* The pipeline: validate_feed.py, then format_comment.py and get_labels.py *)
(* on the file it wrote                                                     *)

Exit(s, code, why) ==
    /\ pc' = [pc EXCEPT ![s] = "exited"]
    /\ exit_code' = [exit_code EXCEPT ![s] = Some(code)]
    /\ fault' = [fault EXCEPT ![s] = why]

Goto(s, where) ==
    /\ pc' = [pc EXCEPT ![s] = where]
    /\ UNCHANGED <<exit_code, fault>>

\* an external call the scripts make, in order
Called(name) == io' = [io EXCEPT !.calls = Append(@, name)]

otherVars == <<dupVars, aggVars, feedVars>>

Init ==
    /\ pc = [validate_feed |-> "import", format_comment |-> "parse_args",
             get_labels |-> "check_argv"]
    /\ issue_data \in IssueDatas
    /\ config \in PipeConfigs
    /\ result = EmptyDict
    /\ io \in {[result_file |-> f, stdout |-> None, calls |-> <<>>] :
                 f \in {"absent", "malformed"}}
    /\ fault = [s \in Scripts |-> "none"]
    /\ exit_code = [s \in Scripts |-> None]
    /\ comment = None
    /\ DupIdle /\ AggIdle /\ FeedIdle

\* lines 15-21: import feedparser, requests
VfImport ==
    /\ pc["validate_feed"] = "import"
    /\ \E installed \in BOOLEAN :
          IF installed
          THEN Goto("validate_feed", "parse_args")
          ELSE Exit("validate_feed", 1, "missing_dependency")
    /\ UNCHANGED <<issue_data, config, result, io, comment, otherVars>>

\* lines 375-380: parser.parse_args()
VfParseArgs ==
    /\ pc["validate_feed"] = "parse_args"
    /\ \E given \in BOOLEAN :
          IF given
          THEN Goto("validate_feed", "parse_issue")
          ELSE Exit("validate_feed", argparse_error_status, "missing_argument")
    /\ UNCHANGED <<issue_data, config, result, io, comment, otherVars>>

\* lines 382-402
VfParseIssue ==
    /\ pc["validate_feed"] = "parse_issue"
    /\ result' = InitialResult(issue_data)
    /\ Goto("validate_feed",
            IF result'.feed_url = <<>> THEN "fail_early" ELSE "url_format")
    /\ UNCHANGED <<issue_data, config, io, comment, otherVars>>

\* lines 402-410
VfFailEarly ==
    /\ pc["validate_feed"] = "fail_early"
    /\ result' = EarlyFailResult(result)
    /\ Goto("validate_feed", "write")
    /\ UNCHANGED <<issue_data, config, io, comment, otherVars>>

\* lines 414-419
VfUrlFormat ==
    /\ pc["validate_feed"] = "url_format"
    /\ \E parsed \in UrlParses :
          result' = SetValidation(result, "url_format", validate_url_format(parsed))
    /\ Called("urlparse")
    /\ Goto("validate_feed", "accessibility")
    /\ UNCHANGED <<issue_data, config, comment, otherVars>>

\* lines 421-435
VfAccessibility ==
    /\ pc["validate_feed"] = "accessibility"
    /\ \E resp \in HttpOutcomes :
          result' = SetValidation(result, "accessibility", AccessibilityEntry(result, resp))
    /\ IF UrlValid(result) THEN Called("requests.get") ELSE UNCHANGED io
    /\ Goto("validate_feed", "structure")
    /\ UNCHANGED <<issue_data, config, comment, otherVars>>

\* lines 437-450
VfStructure ==
    /\ pc["validate_feed"] = "structure"
    /\ \E fd \in StructFeeds :
          result' = SetValidation(result, "structure", StructureEntry(result, fd))
    /\ IF StructureRuns(result) THEN Called("feedparser.parse") ELSE UNCHANGED io
    /\ Goto("validate_feed", "duplicate")
    /\ UNCHANGED <<issue_data, config, comment, otherVars>>

\* lines 452-461
VfDuplicate ==
    /\ pc["validate_feed"] = "duplicate"
    /\ result' = SetValidation(result, "duplicate",
            check_duplicate_in_config(result.feed_url, config, result.request_type,
                                      OldUrlOf(issue_data)))
    /\ Called("config.read")
    /\ Goto("validate_feed", "content")
    /\ UNCHANGED <<issue_data, config, comment, otherVars>>

\* lines 463-476
VfContent ==
    /\ pc["validate_feed"] = "content"
    /\ \E fd \in PipeFeeds : result' = RecordContent(result, fd)
    /\ IF ContentRuns(result) THEN Called("feedparser.parse") ELSE UNCHANGED io
    /\ Goto("validate_feed", "aggregate")
    /\ UNCHANGED <<issue_data, config, comment, otherVars>>

\* lines 478-482
VfAggregate ==
    /\ pc["validate_feed"] = "aggregate"
    /\ result' = WithOverallStatus(result)
    /\ Goto("validate_feed", "write")
    /\ UNCHANGED <<issue_data, config, io, comment, otherVars>>

\* lines 484-492
VfWrite ==
    /\ pc["validate_feed"] = "write"
    /\ \E written \in BOOLEAN :
          /\ io' = IF written THEN [io EXCEPT !.result_file = "written"] ELSE io
          /\ Exit("validate_feed", WriteExitCode(written),
                  IF written THEN "none" ELSE "io_error")
    /\ UNCHANGED <<issue_data, config, result, comment, otherVars>>

\* format_comment.py lines 233-237
FcParseArgs ==
    /\ pc["validate_feed"] = "exited"
    /\ pc["format_comment"] = "parse_args"
    /\ \E given \in BOOLEAN :
          IF given
          THEN Goto("format_comment", "read")
          ELSE Exit("format_comment", argparse_error_status, "missing_argument")
    /\ UNCHANGED <<issue_data, config, result, io, comment, otherVars>>

\* format_comment.py lines 239-245 and the handlers of lines 254-262
FcRead ==
    /\ pc["format_comment"] = "read"
    /\ CASE io.result_file = "absent" ->
                Exit("format_comment", 1, "io_error") /\ UNCHANGED comment
         [] io.result_file = "malformed" ->
                Exit("format_comment", 1, "malformed_json") /\ UNCHANGED comment
         [] OTHER ->
                comment' = Some(generate_comment(result)) /\ Goto("format_comment", "write")
    /\ UNCHANGED <<issue_data, config, result, io, otherVars>>

\* format_comment.py lines 247-252 and the handlers of lines 254-262
FcWrite ==
    /\ pc["format_comment"] = "write"
    /\ \E written \in BOOLEAN :
          IF written
          THEN Exit("format_comment", 0, "none")
          ELSE Exit("format_comment", 1, "io_error")
    /\ UNCHANGED <<issue_data, config, result, io, comment, otherVars>>

\* get_labels.py lines 13-15
GlCheckArgv ==
    /\ pc["validate_feed"] = "exited"
    /\ pc["get_labels"] = "check_argv"
    /\ \E given \in BOOLEAN :
          IF given
          THEN Goto("get_labels", "read")
          ELSE Exit("get_labels", 1, "missing_argument")
    /\ UNCHANGED <<issue_data, config, result, io, comment, otherVars>>

\* get_labels.py lines 17-36
GlRead ==
    /\ pc["get_labels"] = "read"
    /\ CASE io.result_file = "absent" ->
                Exit("get_labels", 1, "io_error") /\ UNCHANGED io
         [] io.result_file = "malformed" ->
                Exit("get_labels", 1, "malformed_json") /\ UNCHANGED io
         [] OTHER ->
                LET labels == Get(result, "labels", <<>>)
                IN  /\ io' = IF labels # <<>>
                             THEN [io EXCEPT !.stdout = Some(CommaJoined(labels))]
                             ELSE io
                    /\ Exit("get_labels", 0, "none")
    /\ UNCHANGED <<issue_data, config, result, comment, otherVars>>

Next ==
    \/ VfImport \/ VfParseArgs \/ VfParseIssue \/ VfFailEarly
    \/ VfUrlFormat \/ VfAccessibility \/ VfStructure \/ VfDuplicate
    \/ VfContent \/ VfAggregate \/ VfWrite
    \/ FcParseArgs \/ FcRead \/ FcWrite
    \/ GlCheckArgv \/ GlRead

Spec == Init /\ [][Next]_vars

----------------------------------------------------------------------------
(* Claims about the pipeline, checked under Spec *)

\* the submission's extracted fields hold no feed-url
NoFeedUrl == "feed-url" \notin DOMAIN issue_data

\* validate_feed.py has built its result record: it is about to write it,
\* or has written it
ResultProduced == pc["validate_feed"] = "write" \/ io.result_file = "written"

ResultWritten == io.result_file = "written"

\* C1: a submission without a feed-url yields a result record with
\* overall_status fail and success false, whatever its name, request type
\* and old URL and whatever the registry holds.
C1_MissingFeedUrlFails ==
    (ResultProduced /\ NoFeedUrl) =>
        /\ result.overall_status = "fail"
        /\ result.success = FALSE

\* C1 witness: a submission with a name, an edit request type and an old
\* URL but no feed-url, against a registry with feed sections, was written
\* out as a failure.
C1_Witness ==
    /\ ResultWritten /\ NoFeedUrl
    /\ {"name", "request-type", "old-url"} \subseteq DOMAIN issue_data
    /\ issue_data["request-type"] = EditExistingFeed
    /\ config.kind = "valid" /\ config.sections # <<>>
    /\ result.overall_status = "fail"
    /\ ~result.success

\* C2 as stated: every result record written holds all five check keys in
\* its validations mapping.
C2_AlwaysFiveKeys ==
    ResultWritten => CheckNames \subseteq DOMAIN result.validations

\* C2 amended: every result record written for a submission that has a
\* feed-url holds exactly the five check keys, whatever the checks returned
\* (a check that did not run is recorded as skipped); the record written for
\* a submission without a feed-url holds the single key parsing.
C2_FiveKeysWhenUrlPresent ==
    ResultWritten =>
        IF NoFeedUrl
        THEN DOMAIN result.validations = {"parsing"}
        ELSE DOMAIN result.validations = CheckNames

\* C2 witness: a record was written whose URL format failed, so that the
\* accessibility, structure and content checks were skipped, and it holds
\* the five keys.
C2_Witness ==
    /\ ResultWritten /\ ~NoFeedUrl
    /\ ~result.validations["url_format"].passed
    /\ result.validations["content"].warnings = <<"Skipped (feed structure invalid)">>
    /\ DOMAIN result.validations = CheckNames

Exited(s) == pc[s] = "exited" /\ exit_code[s] # None

\* C9 as stated: each script exits 0 when it completed its stage and exits 1
\* on an I/O error, on malformed JSON input and on a missing required
\* command-line argument.
C9_ExitZeroOrOne ==
    \A s \in Scripts :
        Exited(s) =>
            /\ fault[s] = "none" => exit_code[s] = Some(0)
            /\ fault[s] \in {"io_error", "malformed_json", "missing_argument"}
                  => exit_code[s] = Some(1)

\* C9 amended: each script exits 0 when it completed its stage (validate_feed
\* also when overall_status is fail or warning) and exits 1 on an I/O error
\* and on malformed JSON input; on a missing required command-line argument
\* get_labels exits 1, while validate_feed and format_comment, which parse
\* their arguments with argparse, exit 2.
C9_ExitCodes ==
    \A s \in Scripts :
        Exited(s) =>
            /\ fault[s] = "none" => exit_code[s] = Some(0)
            /\ fault[s] \in {"io_error", "malformed_json"} => exit_code[s] = Some(1)
            /\ fault[s] = "missing_argument" =>
                  exit_code[s] = Some(IF s = "get_labels" THEN 1 ELSE 2)
            /\ (s = "validate_feed" /\ exit_code[s] = Some(0)) => ResultWritten
            /\ (s = "validate_feed" /\ fault[s] = "io_error") => exit_code[s] # Some(0)

\* C9 witness: validate_feed wrote a result whose overall_status is fail and
\* exited 0, and format_comment and get_labels then completed and exited 0.
C9_Witness ==
    /\ \A s \in Scripts : Exited(s) /\ exit_code[s] = Some(0)
    /\ ResultWritten
    /\ result.overall_status = "fail"
    /\ comment # None
    /\ io.stdout # None

----------------------------------------------------------------------------
(* Claims about the order and gating of the checks, checked under Spec *)

\* validate_feed.py has run all five checks of a submission with a feed-url
ChecksDone ==
    /\ ~NoFeedUrl
    /\ DOMAIN result # {}
    /\ CheckNames \subseteq DOMAIN result.validations

\* passed, read the way main reads it back (absent counts as not passed)
PassedOf(entry) == Get(entry, "passed", FALSE)

\* the library calls a run makes, given which checks passed: the URL parse,
\* the HTTP request if the URL format passed, the feed parse if the feed was
\* accessible, the registry read, and the second feed parse if the
\* structure passed
ExpectedCalls(v) ==
    <<"urlparse">>
    \o (IF PassedOf(v["url_format"]) THEN <<"requests.get">> ELSE <<>>)
    \o (IF PassedOf(v["accessibility"]) THEN <<"feedparser.parse">> ELSE <<>>)
    \o <<"config.read">>
    \o (IF PassedOf(v["structure"]) THEN <<"feedparser.parse">> ELSE <<>>)

\* a prefix of a sequence
IsPrefix(p, q) == Len(p) <= Len(q) /\ SubSeq(q, 1, Len(p)) = p

\* the keys of validations are added in the order of the checks
KeysInOrder(v) ==
    \E n \in 0..Len(RenderOrder) : DOMAIN v = {RenderOrder[i] : i \in 1..n}

\* order and gating, common to the claim as stated and as amended: the
\* results are recorded in the order url_format, accessibility, structure,
\* duplicate, content; a check passes only if its predecessor passed; the
\* calls made are those of the checks whose predecessor passed, in order,
\* with the registry read in every run
OrderAndGating ==
    /\ (~NoFeedUrl /\ DOMAIN result # {}) => KeysInOrder(result.validations)
    /\ ChecksDone =>
          LET v == result.validations
          IN  /\ io.calls = ExpectedCalls(v)
              /\ PassedOf(v["accessibility"]) => PassedOf(v["url_format"])
              /\ PassedOf(v["structure"]) => PassedOf(v["accessibility"])
              /\ v["duplicate"] =
                    check_duplicate_in_config(result.feed_url, config,
                        result.request_type, OldUrlOf(issue_data))

\* the accessibility and structure checks that did not run are recorded as
\* skipped, with passed = false
SkippedCriticalRecorded ==
    ChecksDone =>
        LET v == result.validations
        IN  /\ ~PassedOf(v["url_format"]) =>
                  v["accessibility"] =
                      [passed |-> FALSE, status_code |-> 0,
                       message |-> "Skipped (invalid URL format)"]
            /\ ~PassedOf(v["accessibility"]) =>
                  v["structure"] =
                      [passed |-> FALSE, message |-> "Skipped (feed not accessible)"]

\* C11 as stated: the checks run in the order url_format, accessibility,
\* structure, duplicate, content; a dependent check is invoked only if its
\* predecessor passed, otherwise no request or parse is made for it and it
\* is recorded as skipped with passed = false (the content check included);
\* the duplicate check is invoked in every run with a feed URL.
C11_SkippedChecksRecordPassedFalse ==
    /\ OrderAndGating
    /\ SkippedCriticalRecorded
    /\ (ChecksDone /\ ~PassedOf(result.validations["structure"])) =>
          /\ "passed" \in DOMAIN result.validations["content"]
          /\ ~result.validations["content"]["passed"]

\* C11 amended: as stated, except that a skipped content check is recorded
\* with python_score 0 and the warning 'Skipped (feed structure invalid)';
\* the content entry, skipped or not, has no passed field.
C11_OrderAndGating ==
    /\ OrderAndGating
    /\ SkippedCriticalRecorded
    /\ ChecksDone =>
          /\ "passed" \notin DOMAIN result.validations["content"]
          /\ ~PassedOf(result.validations["structure"]) =>
                result.validations["content"] =
                    [python_score |-> 0,
                     warnings |-> <<"Skipped (feed structure invalid)">>]

\* C11 witness: a run whose URL format passed and whose feed was not
\* accessible made the URL parse, the HTTP request and the registry read,
\* and no feed parse, and recorded structure and content as skipped.
C11_Witness ==
    /\ ChecksDone
    /\ PassedOf(result.validations["url_format"])
    /\ ~PassedOf(result.validations["accessibility"])
    /\ io.calls = <<"urlparse", "requests.get", "config.read">>
    /\ result.validations["structure"].message = "Skipped (feed not accessible)"
    /\ result.validations["content"].warnings = <<"Skipped (feed structure invalid)">>

----------------------------------------------------------------------------
(* Claims about the duplicate entry's influence, checked under SpecAgg *)

\* duplicate entries of every shape: absent fields, and every combination of
\* passed, is_duplicate, existing_name and message
DuplicateVariants ==
    DuplicateEntries
    \cup {DupResult(p, d, n, m) :
            p, d \in BOOLEAN, n \in {None, Some("ExampleBlog")},
            m \in {"no_duplicate_found", "already_exists", "exists_ok_for_edit",
                   "old_url_not_found"}}

\* the validations dict v with its duplicate entry replaced (or removed)
WithDuplicate(v, d) ==
    IF d = None
    THEN [k \in DOMAIN v \ {"duplicate"} |-> v[k]]
    ELSE Put(v, "duplicate", d[1])

\* C12: two validations dicts that differ only in the duplicate entry get
\* the same overall_status; and with the critical checks passed and
\* is_duplicate true, duplicate-feed is among the labels and the status is
\* pass when the content score is at least 60 and warning below that.
C12_DuplicateNeverChangesStatus ==
    AggReturned =>
        /\ \A d \in Maybe(DuplicateVariants) :
              determine_overall_status(WithDuplicate(agg_args, d)).overall_status
                  = agg_ret[1].overall_status
        /\ (AllCriticalPassed(agg_args) /\ DuplicateDetected(agg_args)) =>
              /\ "duplicate-feed" \in Range(agg_ret[1].labels)
              /\ agg_ret[1].overall_status =
                    (IF ScoreOf(agg_args) >= 60 THEN "pass" ELSE "warning")

\* C12 witness: a duplicate that failed the duplicate check (passed false,
\* is_duplicate true) with the critical checks passed and a score of at
\* least 60 was returned as a pass carrying duplicate-feed.
C12_Witness ==
    /\ AggReturned
    /\ AllCriticalPassed(agg_args) /\ DuplicateDetected(agg_args)
    /\ "passed" \in DOMAIN agg_args["duplicate"]
    /\ ~agg_args["duplicate"]["passed"]
    /\ ScoreOf(agg_args) >= 60
    /\ agg_ret[1].overall_status = "pass"
    /\ "duplicate-feed" \in Range(agg_ret[1].labels)

----------------------------------------------------------------------------
(* Claims about the written result record, checked under Spec *)

StatusLabels == {"validation-failed", "validation-warning", "validation-passed"}

\* C13: every result record that validate_feed.py writes has overall_status
\* pass, warning or fail (never "unknown") and a non-empty labels list;
\* fail goes with exactly [validation-failed], warning with
\* validation-warning among the labels, pass with exactly
\* [validation-passed] or [duplicate-feed]; and at most one of the three
\* status labels is present.
C13_StatusAndLabelsCorrespond ==
    ResultWritten =>
        /\ result.overall_status \in {"pass", "warning", "fail"}
        /\ result.labels # <<>>
        /\ (result.overall_status = "fail")
              <=> (result.labels = <<"validation-failed">>)
        /\ (result.overall_status = "warning")
              <=> ("validation-warning" \in Range(result.labels))
        /\ (result.overall_status = "pass")
              <=> (result.labels \in {<<"validation-passed">>, <<"duplicate-feed">>})
        /\ Cardinality(Range(result.labels) \cap StatusLabels) <= 1

\* C13 witness: a written record of a run that went through every check and
\* the aggregation, ending as a pass labelled duplicate-feed only.
C13_Witness ==
    /\ ResultWritten
    /\ "content" \in DOMAIN result.validations
    /\ result.overall_status = "pass"
    /\ result.labels = <<"duplicate-feed">>

----------------------------------------------------------------------------
(* A scored run: one feed analysed, aggregated with passing critical checks *)
(* and rendered                                                             *)

\* the duplicate entries of a scored run: no duplicate, or one found on an
\* add request
ScoredRunDuplicates ==
    {DupResult(TRUE, FALSE, None, "no_duplicate_found"),
     DupResult(FALSE, TRUE, Some("ExampleBlog"), "already_exists")}

\* result['validations'] of a run whose URL, fetch and structure checks
\* passed (lines 413-472)
ScoredRunValidations(duplicate, content) ==
    [url_format |-> validate_url_format(UrlParse(FALSE, "https", "example.com")),
     accessibility |-> check_feed_accessibility(HttpOutcome("response", 200, FALSE)),
     structure |-> validate_feed_structure(StructFeed(FALSE, FALSE, "rss20", 12)),
     duplicate |-> duplicate,
     content |-> content]

InitScored ==
    /\ feed \in FeedInputs
    /\ content_ret = None
    /\ DupIdle /\ AggIdle /\ PipeIdle

\* lines 463-482: the analysis result stored and the status determined
ScAggregate ==
    /\ content_ret # None
    /\ agg_ret = None
    /\ \E duplicate \in ScoredRunDuplicates :
          agg_args' = ScoredRunValidations(duplicate, content_ret[1])
    /\ agg_ret' = Some(determine_overall_status(agg_args'))
    /\ UNCHANGED <<dupVars, feedVars, pipeVars>>

\* format_comment.py: the comment generated from the record
ScRender ==
    /\ agg_ret # None
    /\ comment = None
    /\ comment' = Some(generate_comment(
                        [validations |-> agg_args,
                         overall_status |-> agg_ret[1].overall_status,
                         labels |-> agg_ret[1].labels,
                         recommendations |-> agg_ret[1].recommendations]))
    /\ UNCHANGED <<pc, issue_data, config, result, io, fault, exit_code, otherVars>>

NextScored == AnalyzeFeedContent \/ ScAggregate \/ ScRender

SpecScored == InitScored /\ [][NextScored]_vars

----------------------------------------------------------------------------
(* Claims about the three classifications of the score, checked under *)
(* SpecScored                                                          *)

\* the class the thresholds 30 and 60 put a score in
ClassOf(score) ==
    IF score < 30 THEN "Low" ELSE IF score < 60 THEN "Moderate" ELSE "Good"

\* the class the analysis's warnings speak of
WarningClass(warnings) ==
    IF warnings = <<"Low Python content detected - feed may not be Python-specific">>
    THEN "Low"
    ELSE IF warnings =
        <<"Consider filtering your feed by Python tag/category for better relevance">>
    THEN "Moderate"
    ELSE IF warnings = <<>> THEN "Good"
    ELSE "none"

\* the recommendations without the one a duplicate adds
ContentRecommendations(st) ==
    IF st.recommendations # <<>>
       /\ Head(st.recommendations) =
            "This feed appears to already exist - please verify this is an edit request"
    THEN Tail(st.recommendations)
    ELSE st.recommendations

\* the branch the aggregator took, told from what it returned
AggregatorClass(st) ==
    IF /\ st.overall_status = "warning"
       /\ ContentRecommendations(st) =
            <<"Feed appears to have low Python-specific content",
              "Consider providing a filtered feed URL (by tag/category)">>
    THEN "Low"
    ELSE IF /\ st.overall_status = "warning"
            /\ ContentRecommendations(st) =
                <<"Feed has moderate Python content - consider filtering by Python tag/category">>
    THEN "Moderate"
    ELSE IF st.overall_status = "pass" /\ ContentRecommendations(st) = <<>>
    THEN "Good"
    ELSE "none"

\* the status text of the report's content line
RenderedClass(line) == line.text[2]

\* the three classifications of one score agree with the thresholds
ClassesAgree(score, warnings, st, line) ==
    /\ line.check = "Python Content"
    /\ line.text[1] = score
    /\ WarningClass(warnings) = ClassOf(score)
    /\ AggregatorClass(st) = ClassOf(score)
    /\ RenderedClass(line) = ClassOf(score)

\* every integer score 0..100, classified by the three functions
AllScoresAgree ==
    \A score \in Percent : \A duplicate \in ScoredRunDuplicates :
        LET warnings == content_warnings(score)
            v == ScoredRunValidations(duplicate, ContentResult(score, warnings))
        IN  ClassesAgree(score, warnings, determine_overall_status(v),
                         format_content_validation(v["content"]))

\* the run analysed a sample, aggregated and rendered
ScoredRunRendered == Scored /\ agg_ret # None /\ comment # None

\* the content line of the rendered report
ContentLine == comment[1].checks[Len(comment[1].checks)]

\* C14: on a run whose critical checks passed and whose analysis computed a
\* score, the analysis's warning, the aggregator's branch and the
\* renderer's status text name the same class: Low below 30, Moderate from
\* 30 to 59, Good from 60; and the same holds of the three functions for
\* every integer score 0..100.
C14_ScoreClassesAgree ==
    /\ AllScoresAgree
    /\ (ScoredRunRendered /\ AllCriticalPassed(agg_args)) =>
          ClassesAgree(content_ret[1].python_score, content_ret[1].warnings,
                       agg_ret[1], ContentLine)

\* C14 witness: a rendered run whose sample of ten has three matches: score
\* 30, the softer warning, the one-recommendation warning branch and
\* "Moderate" in the report.
C14_Witness ==
    /\ ScoredRunRendered /\ AllCriticalPassed(agg_args)
    /\ content_ret[1].python_score = 30
    /\ WarningClass(content_ret[1].warnings) = "Moderate"
    /\ AggregatorClass(agg_ret[1]) = "Moderate"
    /\ RenderedClass(ContentLine) = "Moderate"

====
